---- MODULE Spec2Model ----
(***************************************************************************)
(* Model of the build scripts of grace: build.py (argument parser + main)  *)
(* and install.py.  A run is one execution of one of the two scripts.      *)
(* Every os.system call appends the command text and the status it         *)
(* returned to cmds; every print call appends its text to out (standard    *)
(* output only: what argparse or a traceback writes to stderr is not       *)
(* recorded).  A build.py command line is "[--install] [config]".          *)
(* Command texts                                                           *)
(* are kept as the sequence of their pieces (literal words, the blanks     *)
(* between them, and interpolated values), so that the argument list the   *)
(* shell hands to cmake can be computed by splitting at the blanks.        *)
(*                                                                         *)
(* Environment assumed: os.mkdir succeeds when 'build' is absent (the path *)
(* is either absent or a directory), and printing never fails.             *)
(***************************************************************************)
EXTENDS Integers, Sequences, FiniteSets, TLC

VARIABLES
    prog,            \* which script runs: "build.py" or "install.py"
    pc,              \* position of the run in the script
    config,          \* build.py: the positional argument (NoArg when absent)
    install,         \* build.py: the --install switch
    osName,          \* os.name of the host
    buildDir,        \* TRUE iff the directory 'build' exists
    buildDirAtStart, \* buildDir when the run started (history)
    cmds,            \* os.system calls so far: [text, status]
    out,             \* texts of the print calls so far (stdout)
    install_status,  \* install.py: status of the install command (-1: unset)
    exc,             \* exception that ended the run ("none" when none)
    exitStatus       \* exit status of the script (-1 while running)

vars == <<prog, pc, config, install, osName, buildDir, buildDirAtStart,
          cmds, out, install_status, exc, exitStatus>>

(***************************************************************************)
(* Bounds and input sets                                                   *)
(***************************************************************************)
\* os.system statuses are drawn from 0..MaxStatus (0: success; the scripts
\* only ever compare a status with 0, so the nonzero values stand for any
\* exit code on Windows or wait status elsewhere).
MaxStatus == 2

Statuses == 0..MaxStatus

\* Marks a command line without the positional argument.
NoArg == "<missing>"

\* Positional arguments tried: the three accepted ones and some others.
ConfigArgs == {"Debug", "Release", "All", "debug", "all", "", "RelWithDebInfo"}

\* Values of os.name: "nt" on Windows, others elsewhere.
OsNames == {"nt", "posix", "java"}

SP == " "

(***************************************************************************)
(* Command texts, one definition per os.system call site                   *)
(***************************************************************************)
\* build.py:21
SingleGenerateCmd(cfg) ==
    <<"cmake", SP, "-DCMAKE_BUILD_TYPE=", cfg, SP, "-S", SP, ".", SP, "-B", SP, "build">>

\* build.py:24-33
SingleBuildCmd(cfg, inst, os) ==
    IF os = "nt"
    THEN IF inst
         THEN <<"cmake", SP, "--build", SP, "build", SP, "--config", SP, cfg, SP,
                "--target", SP, "install">>
         ELSE <<"cmake", SP, "--build", SP, "build", SP, "--config", SP, cfg>>
    ELSE IF inst
         THEN <<"cmake", SP, "--build", SP, "build", SP, "--config", SP, cfg, SP,
                "--target", SP, "install", SP, "--", SP, "-j">>
         ELSE <<"cmake", SP, "--build", SP, "build", SP, "--config", SP, cfg, SP,
                "--", SP, "-j">>

\* Variant of AllDebugGenerateCmd that names the wrong configuration.
AllDebugGenerateCmd_Release ==
    <<"cmake", SP, "-DCMAKE_BUILD_TYPE=", "Release", SP, "-S", SP, ".", SP, "-B", SP, "build">>

\* build.py:36
AllDebugGenerateCmd ==
    <<"cmake", SP, "-DCMAKE_BUILD_TYPE=", "Debug", SP, "-S", SP, ".", SP, "-B", SP, "build">>

\* Variant of AllDebugBuildCmd whose POSIX arm drops the install target.
AllDebugBuildCmd_NoTarget(inst, os) ==
    IF os = "nt"
    THEN IF inst
         THEN <<"cmake", SP, "--build", SP, "build", SP, "--config", SP, "Debug", SP,
                "--target", SP, "install">>
         ELSE <<"cmake", SP, "--build", SP, "build", SP, "--config", SP, "Debug">>
    ELSE <<"cmake", SP, "--build", SP, "build", SP, "--config", SP, "Debug", SP,
           "--", SP, "-j">>

\* build.py:40-49
AllDebugBuildCmd(inst, os) ==
    IF os = "nt"
    THEN IF inst
         THEN <<"cmake", SP, "--build", SP, "build", SP, "--config", SP, "Debug", SP,
                "--target", SP, "install">>
         ELSE <<"cmake", SP, "--build", SP, "build", SP, "--config", SP, "Debug">>
    ELSE IF inst
         THEN <<"cmake", SP, "--build", SP, "build", SP, "--config", SP, "Debug", SP,
                "--target", SP, "install", SP, "--", SP, "-j">>
         ELSE <<"cmake", SP, "--build", SP, "build", SP, "--config", SP, "Debug", SP,
                "--", SP, "-j">>

\* build.py:54
AllReleaseGenerateCmd ==
    <<"cmake", SP, "-DCMAKE_BUILD_TYPE=", "Release", SP, "-S", SP, ".", SP, "-B", SP, "build">>

\* Variant of AllReleaseBuildCmd whose Windows install arm carries -- -j.
AllReleaseBuildCmd_JobsOnNt(inst, os) ==
    IF os = "nt"
    THEN IF inst
         THEN <<"cmake", SP, "--build", SP, "build", SP, "--config", SP, "Release", SP,
                "--target", SP, "install", SP, "--", SP, "-j">>
         ELSE <<"cmake", SP, "--build", SP, "build", SP, "--config", SP, "Release">>
    ELSE IF inst
         THEN <<"cmake", SP, "--build", SP, "build", SP, "--config", SP, "Release", SP,
                "--target", SP, "install", SP, "--", SP, "-j">>
         ELSE <<"cmake", SP, "--build", SP, "build", SP, "--config", SP, "Release", SP,
                "--", SP, "-j">>

\* build.py:58-67
AllReleaseBuildCmd(inst, os) ==
    IF os = "nt"
    THEN IF inst
         THEN <<"cmake", SP, "--build", SP, "build", SP, "--config", SP, "Release", SP,
                "--target", SP, "install">>
         ELSE <<"cmake", SP, "--build", SP, "build", SP, "--config", SP, "Release">>
    ELSE IF inst
         THEN <<"cmake", SP, "--build", SP, "build", SP, "--config", SP, "Release", SP,
                "--target", SP, "install", SP, "--", SP, "-j">>
         ELSE <<"cmake", SP, "--build", SP, "build", SP, "--config", SP, "Release", SP,
                "--", SP, "-j">>

\* install.py:8 (no blank between "exe" and "-DCMAKE_BUILD_TYPE=")
InstallGenerateCmd ==
    <<"cmake", SP, "-DGRACE_BUILD_TARGET=", "exe", "-DCMAKE_BUILD_TYPE=", "Release", SP,
      "-S", SP, ".", SP, "-B", SP, "build">>

\* install.py:12
InstallBuildCmd ==
    <<"cmake", SP, "--build", SP, "build", SP, "--config", SP, "Release", SP,
      "--target", SP, "install">>

(***************************************************************************)
(* Printed texts                                                           *)
(***************************************************************************)
GeneratingMsg(cfg) == <<"INFO: Generating CMake project for configuration: ", cfg, "\n">>
BuildingMsg(cfg) == <<"INFO: Building configuration: ", cfg, "\n">>
BlankLine == <<>>
InstallGeneratingMsg == <<"INFO: Generating CMake project\n">>
InstallBuildingMsg == <<"INFO: Building configuration\n">>
SuccessBanner == <<"\n\n=== INSTALLATION SUCCESSFUL ===\n\n">>
GuidanceNt == <<"To use grace, add grace's installation directory to your PATH and set the GRACE_STD_PATH environment variable. This is usually C:/Program Files (x86)/grace/bin and C:/Program Files (x86)/grace/std, but check the above log to see if it was different.">>
GuidancePosix == <<"To use grace, set the GRACE_STD_PATH environment variable in your shell config. This will be /usr/local/share/grace/std">>

\* install.py:15-18
Guidance(os) == IF os = "nt" THEN GuidanceNt ELSE GuidancePosix

(***************************************************************************)
(* Control decisions                                                       *)
(***************************************************************************)
\* Variant of Branch whose last arm is the "All" arm (no rejection).
Branch_NoReject(cfg) ==
    IF cfg = "Release" \/ cfg = "Debug" THEN "single"
    ELSE "all"

\* Variant of Branch that misspells one accepted value.
Branch_Misspelt(cfg) ==
    IF cfg = "Release" \/ cfg = "debug" THEN "single"
    ELSE IF cfg = "All" THEN "all"
    ELSE "raise"

\* build.py:19, 34, 68: which arm of main's if/elif/else runs
Branch(cfg) ==
    IF cfg = "Release" \/ cfg = "Debug" THEN "single"
    ELSE IF cfg = "All" THEN "all"
    ELSE "raise"

\* Variant of InstallSucceeded that tests the status for truth.
InstallSucceeded_Truthy(status) == status # 0

\* install.py:13
InstallSucceeded(status) == status = 0

\* build.py:16-17, install.py:4-5
MkdirIfAbsent(exists) == IF ~exists THEN TRUE ELSE exists

System(text, status) == [text |-> text, status |-> status]

(***************************************************************************)
(* Initial states: one run of one script, with its inputs                  *)
(***************************************************************************)
Init ==
    /\ prog \in {"build.py", "install.py"}
    /\ osName \in OsNames
    /\ buildDir \in BOOLEAN
    /\ buildDirAtStart = buildDir
    /\ IF prog = "build.py"
       THEN /\ config \in ConfigArgs \cup {NoArg}
            /\ install \in BOOLEAN
            /\ pc = "parse"
       ELSE /\ config = NoArg
            /\ install = FALSE
            /\ pc = "i_mkdir"
    /\ cmds = <<>>
    /\ out = <<>>
    /\ install_status = -1
    /\ exc = "none"
    /\ exitStatus = -1

(***************************************************************************)
(* build.py                                                                *)
(***************************************************************************)
\* build.py:72-74 with the parser of lines 4-12: a missing positional
\* argument makes parse_args write its usage and error lines to stderr
\* (no print call, nothing on stdout) and exit with status 2.
ParseArgs ==
    /\ prog = "build.py" /\ pc = "parse"
    /\ IF config = NoArg
       THEN /\ exc' = "SystemExit"
            /\ exitStatus' = 2
            /\ pc' = "done"
       ELSE /\ pc' = "main"
            /\ UNCHANGED <<exc, exitStatus>>
    /\ UNCHANGED <<prog, config, install, osName, buildDir, buildDirAtStart,
                   cmds, out, install_status>>

\* build.py:16-17
MainMkdir ==
    /\ prog = "build.py" /\ pc = "main"
    /\ buildDir' = MkdirIfAbsent(buildDir)
    /\ pc' = "branch"
    /\ UNCHANGED <<prog, config, install, osName, buildDirAtStart, cmds, out,
                   install_status, exc, exitStatus>>

\* build.py:19-22
SingleGenerate ==
    /\ prog = "build.py" /\ pc = "branch" /\ Branch(config) = "single"
    /\ \E s \in Statuses :
         cmds' = Append(cmds, System(SingleGenerateCmd(config), s))
    /\ out' = out \o <<GeneratingMsg(config), BlankLine>>
    /\ pc' = "single_build"
    /\ UNCHANGED <<prog, config, install, osName, buildDir, buildDirAtStart,
                   install_status, exc, exitStatus>>

\* build.py:23-33, then main returns and the script ends (line 74)
SingleBuild ==
    /\ prog = "build.py" /\ pc = "single_build"
    /\ \E s \in Statuses :
         cmds' = Append(cmds, System(SingleBuildCmd(config, install, osName), s))
    /\ out' = Append(out, BuildingMsg(config))
    /\ pc' = "done"
    /\ exitStatus' = 0
    /\ UNCHANGED <<prog, config, install, osName, buildDir, buildDirAtStart,
                   install_status, exc>>

\* build.py:34-37
AllGenerateDebug ==
    /\ prog = "build.py" /\ pc = "branch" /\ Branch(config) = "all"
    /\ \E s \in Statuses :
         cmds' = Append(cmds, System(AllDebugGenerateCmd, s))
    /\ out' = out \o <<GeneratingMsg("Debug"), BlankLine>>
    /\ pc' = "all_build_debug"
    /\ UNCHANGED <<prog, config, install, osName, buildDir, buildDirAtStart,
                   install_status, exc, exitStatus>>

\* build.py:38-51
AllBuildDebug ==
    /\ prog = "build.py" /\ pc = "all_build_debug"
    /\ \E s \in Statuses :
         cmds' = Append(cmds, System(AllDebugBuildCmd(install, osName), s))
    /\ out' = out \o <<BuildingMsg("Debug"), BlankLine>>
    /\ pc' = "all_generate_release"
    /\ UNCHANGED <<prog, config, install, osName, buildDir, buildDirAtStart,
                   install_status, exc, exitStatus>>

\* build.py:53-55
AllGenerateRelease ==
    /\ prog = "build.py" /\ pc = "all_generate_release"
    /\ \E s \in Statuses :
         cmds' = Append(cmds, System(AllReleaseGenerateCmd, s))
    /\ out' = out \o <<GeneratingMsg("Release"), BlankLine>>
    /\ pc' = "all_build_release"
    /\ UNCHANGED <<prog, config, install, osName, buildDir, buildDirAtStart,
                   install_status, exc, exitStatus>>

\* build.py:56-67, then main returns and the script ends (line 74)
AllBuildRelease ==
    /\ prog = "build.py" /\ pc = "all_build_release"
    /\ \E s \in Statuses :
         cmds' = Append(cmds, System(AllReleaseBuildCmd(install, osName), s))
    /\ out' = Append(out, BuildingMsg("Release"))
    /\ pc' = "done"
    /\ exitStatus' = 0
    /\ UNCHANGED <<prog, config, install, osName, buildDir, buildDirAtStart,
                   install_status, exc>>

\* build.py:68-69: the ValueError is not caught, so the script ends with
\* a traceback and exit status 1.
RaiseValueError ==
    /\ prog = "build.py" /\ pc = "branch" /\ Branch(config) = "raise"
    /\ exc' = "ValueError"
    /\ exitStatus' = 1
    /\ pc' = "done"
    /\ UNCHANGED <<prog, config, install, osName, buildDir, buildDirAtStart,
                   cmds, out, install_status>>

(***************************************************************************)
(* install.py                                                              *)
(***************************************************************************)
\* install.py:4-5
InstallMkdir ==
    /\ prog = "install.py" /\ pc = "i_mkdir"
    /\ buildDir' = MkdirIfAbsent(buildDir)
    /\ pc' = "i_generate"
    /\ UNCHANGED <<prog, config, install, osName, buildDirAtStart, cmds, out,
                   install_status, exc, exitStatus>>

\* install.py:7-9
InstallGenerate ==
    /\ prog = "install.py" /\ pc = "i_generate"
    /\ \E s \in Statuses :
         cmds' = Append(cmds, System(InstallGenerateCmd, s))
    /\ out' = out \o <<InstallGeneratingMsg, BlankLine>>
    /\ pc' = "i_build"
    /\ UNCHANGED <<prog, config, install, osName, buildDir, buildDirAtStart,
                   install_status, exc, exitStatus>>

\* install.py:10-12
InstallBuild ==
    /\ prog = "install.py" /\ pc = "i_build"
    /\ \E s \in Statuses :
         /\ cmds' = Append(cmds, System(InstallBuildCmd, s))
         /\ install_status' = s
    /\ out' = Append(out, InstallBuildingMsg)
    /\ pc' = "i_report"
    /\ UNCHANGED <<prog, config, install, osName, buildDir, buildDirAtStart,
                   exc, exitStatus>>

\* install.py:13-18, then the script ends
InstallReport ==
    /\ prog = "install.py" /\ pc = "i_report"
    /\ out' = IF InstallSucceeded(install_status)
              THEN out \o <<SuccessBanner, Guidance(osName)>>
              ELSE out
    /\ pc' = "done"
    /\ exitStatus' = 0
    /\ UNCHANGED <<prog, config, install, osName, buildDir, buildDirAtStart,
                   cmds, install_status, exc>>

Next ==
    \/ ParseArgs
    \/ MainMkdir
    \/ SingleGenerate
    \/ SingleBuild
    \/ AllGenerateDebug
    \/ AllBuildDebug
    \/ AllGenerateRelease
    \/ AllBuildRelease
    \/ RaiseValueError
    \/ InstallMkdir
    \/ InstallGenerate
    \/ InstallBuild
    \/ InstallReport

Spec == Init /\ [][Next]_vars

(***************************************************************************)
(* Reading a command text the way the shell does                           *)
(***************************************************************************)
RECURSIVE SplitWords(_, _, _)
SplitWords(text, i, cur) ==
    IF i > Len(text)
    THEN IF cur = <<>> THEN <<>> ELSE <<cur>>
    ELSE IF text[i] = SP
         THEN (IF cur = <<>> THEN <<>> ELSE <<cur>>) \o SplitWords(text, i + 1, <<>>)
         ELSE SplitWords(text, i + 1, Append(cur, text[i]))

\* The arguments of a command: maximal runs of pieces between blanks.
Words(text) == SplitWords(text, 1, <<>>)

HasArg(text, a) == \E i \in DOMAIN Words(text) : Words(text)[i] = a

HasArgPair(text, a, b) ==
    \E i \in DOMAIN Words(text) :
        /\ i + 1 \in DOMAIN Words(text)
        /\ Words(text)[i] = a
        /\ Words(text)[i + 1] = b

IsBuildCmd(text) == Words(text)[1] = <<"cmake">> /\ HasArg(text, <<"--build">>)
IsGenerateCmd(text) ==
    Words(text)[1] = <<"cmake">> /\ HasArg(text, <<"-S">>) /\ ~HasArg(text, <<"--build">>)
HasInstallTarget(text) == HasArgPair(text, <<"--target">>, <<"install">>)
HasJobsFlag(text) == HasArgPair(text, <<"--">>, <<"-j">>)

Configurations == {"Debug", "Release"}
ValidSelectors == {"Debug", "Release", "All"}

\* The configurations a command text refers to.
Mentioned(text) == {c \in Configurations : \E k \in DOMAIN text : text[k] = c}

\* The expansion table of the specification (section 3).
Plan(sel) ==
    IF sel = "All" THEN <<"Debug", "Release">>
    ELSE IF sel \in Configurations THEN <<sel>>
    ELSE <<>>

\* The configuration whose commands the i-th os.system call belongs to.
Processing(i) ==
    IF prog = "install.py" THEN "Release" ELSE Plan(config)[(i + 1) \div 2]

InstallRequested == prog = "install.py" \/ (prog = "build.py" /\ install)

GuidanceLines == {k \in DOMAIN out : out[k] \in {GuidanceNt, GuidancePosix}}
GuidancePrinted ==
    \E k \in DOMAIN out : out[k] \in {SuccessBanner, GuidanceNt, GuidancePosix}

SuccessfulInstalls ==
    {i \in DOMAIN cmds : HasInstallTarget(cmds[i].text) /\ cmds[i].status = 0}

(***************************************************************************)
(* Claims                                                                  *)
(***************************************************************************)
\* C1: when install is requested, a Generate command (or a Build command)
\* that exits nonzero is followed, for the same configuration, by no
\* command carrying --target install and by no success guidance.
C1_NoInstallAfterFailedPhase ==
    InstallRequested =>
        \A i \in DOMAIN cmds :
            (cmds[i].status # 0) =>
                /\ \A j \in DOMAIN cmds :
                       (j > i /\ Mentioned(cmds[j].text) = Mentioned(cmds[i].text))
                           => ~HasInstallTarget(cmds[j].text)
                /\ (prog = "install.py" => ~GuidancePrinted)

\* C2: build.py called with a configuration string other than Debug,
\* Release or All issues no os.system call at any point and ends with the
\* ValueError of the validation, for either install flag and any platform.
C2_InvalidConfigRejected ==
    (prog = "build.py" /\ config \in ConfigArgs \ ValidSelectors) =>
        /\ cmds = <<>>
        /\ (pc = "done" => exc = "ValueError")

C2_Witness ==
    /\ prog = "build.py" /\ config = "debug" /\ install /\ osName = "nt"
    /\ pc = "done" /\ exc = "ValueError" /\ cmds = <<>>

\* C3: for a valid selector the commands issued by build.py are, for each
\* configuration of the plan in turn, one Generate command then one Build
\* command, whatever the statuses returned; a finished run has issued them
\* all; the Build command carries the install target iff install was asked.
C3_GenerateThenBuildPerConfig ==
    (prog = "build.py" /\ config \in ValidSelectors) =>
        /\ Len(cmds) <= 2 * Len(Plan(config))
        /\ (pc = "done" => Len(cmds) = 2 * Len(Plan(config)))
        /\ \A i \in DOMAIN cmds :
               IF i % 2 = 1
               THEN /\ IsGenerateCmd(cmds[i].text)
                    /\ HasArg(cmds[i].text, <<"-DCMAKE_BUILD_TYPE=", Processing(i)>>)
               ELSE /\ IsBuildCmd(cmds[i].text)
                    /\ HasArgPair(cmds[i].text, <<"--config">>, <<Processing(i)>>)
                    /\ (HasInstallTarget(cmds[i].text) <=> install)

C3_Witness ==
    /\ prog = "build.py" /\ config = "All" /\ install /\ pc = "done"
    /\ Len(cmds) = 4
    /\ cmds[1].status # 0 /\ cmds[2].status # 0
    /\ IsGenerateCmd(cmds[3].text) /\ IsBuildCmd(cmds[4].text)

\* C4: a finished run of build.py with install requested has printed the
\* post-install guidance of the platform once for each install-carrying
\* command that returned status 0.
C4_GuidancePerSuccessfulInstall ==
    (prog = "build.py" /\ install /\ pc = "done" /\ exc = "none") =>
        /\ Cardinality(GuidanceLines) = Cardinality(SuccessfulInstalls)
        /\ \A k \in GuidanceLines : out[k] = Guidance(osName)

\* C5: install.py prints the success banner or the guidance only if the
\* install command returned status 0.
C5_BannerOnlyOnSuccess ==
    (prog = "install.py" /\ GuidancePrinted) =>
        /\ install_status = 0
        /\ \E i \in DOMAIN cmds :
               /\ cmds[i].text = InstallBuildCmd
               /\ HasInstallTarget(cmds[i].text)
               /\ cmds[i].status = 0

C5_Witness ==
    /\ prog = "install.py" /\ pc = "done" /\ osName = "posix"
    /\ install_status = 0
    /\ \E k \in DOMAIN out : out[k] = SuccessBanner
    /\ \E k \in DOMAIN out : out[k] = GuidancePosix

\* C6: the configurations referred to by the successive commands of
\* build.py are Debug, Debug, Release, Release under "All", and the one
\* selected configuration twice under "Debug" or "Release".
C6_DebugBeforeRelease ==
    (prog = "build.py" /\ config \in ValidSelectors) =>
        /\ \A i \in DOMAIN cmds :
               /\ (i + 1) \div 2 \in DOMAIN Plan(config)
               /\ Mentioned(cmds[i].text) = {Plan(config)[(i + 1) \div 2]}
        /\ \A i, j \in DOMAIN cmds :
               ("Debug" \in Mentioned(cmds[i].text)
                    /\ "Release" \in Mentioned(cmds[j].text)) => i < j
        /\ (pc = "done" =>
               \A c \in Configurations :
                   Cardinality({i \in DOMAIN cmds : c \in Mentioned(cmds[i].text)})
                       = IF config \in {c, "All"} THEN 2 ELSE 0)

C6_Witness ==
    /\ prog = "build.py" /\ config = "All" /\ pc = "done"
    /\ Mentioned(cmds[1].text) = {"Debug"} /\ Mentioned(cmds[2].text) = {"Debug"}
    /\ Mentioned(cmds[3].text) = {"Release"} /\ Mentioned(cmds[4].text) = {"Release"}

\* C7: a Build command of build.py carries -- -j iff os.name is not 'nt';
\* a Generate command never carries it.
C7_JobsFlagOnPosixOnly ==
    prog = "build.py" =>
        \A i \in DOMAIN cmds :
            /\ IsBuildCmd(cmds[i].text) =>
                   (HasJobsFlag(cmds[i].text) <=> osName # "nt")
            /\ IsGenerateCmd(cmds[i].text) => ~HasJobsFlag(cmds[i].text)

C7_Witness ==
    /\ prog = "build.py" /\ config = "All" /\ install /\ osName = "posix"
    /\ pc = "done"
    /\ HasJobsFlag(cmds[2].text) /\ HasJobsFlag(cmds[4].text)
    /\ ~HasJobsFlag(cmds[1].text) /\ ~HasJobsFlag(cmds[3].text)

\* C8: the exit status of a finished run of build.py is nonzero iff the
\* configuration selector is not one of Debug, Release, All; the statuses
\* of the subprocesses do not enter it.
C8_ExitStatusFromValidationOnly ==
    (prog = "build.py" /\ pc = "done") =>
        (exitStatus # 0 <=> config \notin ValidSelectors)

C8_Witness ==
    /\ prog = "build.py" /\ pc = "done" /\ config = "Release" /\ install
    /\ Len(cmds) = 2 /\ cmds[1].status # 0 /\ cmds[2].status # 0
    /\ exitStatus = 0

\* C9: every Generate command of build.py and install.py has, as two
\* distinct arguments, a build-type selector and a build-configuration
\* selector naming the configuration being processed, and targets the
\* directory 'build'.
C9_GenerateCarriesBothSelectors ==
    \A i \in DOMAIN cmds :
        IsGenerateCmd(cmds[i].text) =>
            /\ \E a, b \in DOMAIN Words(cmds[i].text) :
                   /\ a # b
                   /\ \E t \in {"exe", "dll"} :
                          Words(cmds[i].text)[a] = <<"-DGRACE_BUILD_TARGET=", t>>
                   /\ Words(cmds[i].text)[b] = <<"-DCMAKE_BUILD_TYPE=", Processing(i)>>
            /\ HasArgPair(cmds[i].text, <<"-B">>, <<"build">>)

\* C10: when build.py's main rejects the selector and 'build' did not
\* exist at the start, 'build' still does not exist.
C10_RejectionLeavesNoDirectory ==
    (prog = "build.py" /\ exc = "ValueError" /\ ~buildDirAtStart) => ~buildDir

====
